---------------------------- MODULE Spec2Model ----------------------------
(***************************************************************************)
(* A model of lrg (src/lrg.c): the range parser (lrg_read_linenum,         *)
(* lrg_next_linerange, lrg_parse_lines), the scan engine (lrg_processfile) *)
(* and the driver (lrg_nextfile, main), for the POSIX build                *)
(* (LRG_POSIX = 1, hence LRG_BACKWARD_SCAN = 1, LRG_FILLBUF_MODE = 0,      *)
(* LRG_FAST_MEMCNT = 0).                                                   *)
(*                                                                         *)
(* Characters are one-character strings, a C string is a sequence of them  *)
(* (the terminating NUL is the position Len(s) + 1).  A byte of a stream   *)
(* is a number that carries the place it comes from: 2 * (offset + 1),     *)
(* plus 1 when the byte is '\n'.  The program only ever asks whether a     *)
(* byte is a newline (IsNL); ByteVal is the value two outputs are compared *)
(* by: every newline alike, every other byte of a stream distinct.         *)
(***************************************************************************)
EXTENDS Integers, Sequences, FiniteSets, TLC

(***************************************************************************)
(* Build settings and program constants.  LRG_BUFSIZE and                  *)
(* LRG_BACKWARD_SCAN_THRESHOLD are #ifndef settings of the build; the      *)
(* model takes a small buffer and the smallest threshold the source allows *)
(* ("must always be at least 1").  linenum_t is modelled LinenumBits wide. *)
(***************************************************************************)
LRG_BUFSIZE == 2

LRG_BACKWARD_SCAN_THRESHOLD == 1

LRG_LINEBUFSIZE == 2

LinenumBits == 6

LinenumMod == 2 ^ LinenumBits

LINENUM_MAX == LinenumMod - 1

DefaultRadius == 3

EXITCODE_OK == 0

EXITCODE_ERR == 1

EXITCODE_USE == 2

(***************************************************************************)
(* Bounds of the model.                                                    *)
(***************************************************************************)
MaxLen == 4

MaxLine == 3

MaxRadius == 1

(***************************************************************************)
(* C strings.                                                              *)
(***************************************************************************)
NUL == "NUL"

DigitChars == <<"0", "1", "2", "3", "4", "5", "6", "7", "8", "9">>

IsDigit(c) == \E i \in 1..10 : DigitChars[i] = c

DigitVal(c) == (CHOOSE i \in 1..10 : DigitChars[i] = c) - 1

IsSpace(c) == c = " "

CharAt(s, i) == IF i >= 1 /\ i <= Len(s) THEN s[i] ELSE NUL

Min(a, b) == IF a < b THEN a ELSE b

Max(a, b) == IF a > b THEN a ELSE b

\* while (isspace(*str)) ++str;
RECURSIVE SkipSpace(_, _)
SkipSpace(s, i) == IF IsSpace(CharAt(s, i)) THEN SkipSpace(s, i + 1) ELSE i

\* The digit loop of strtoull: the value so far, saturating at LINENUM_MAX
\* with ERANGE once it no longer fits, and the position after the digits.
RECURSIVE ScanDigits(_, _, _, _)
ScanDigits(s, i, acc, erange) ==
    IF IsDigit(CharAt(s, i))
    THEN LET v == acc * 10 + DigitVal(s[i])
         IN  IF erange \/ v > LINENUM_MAX
             THEN ScanDigits(s, i + 1, LINENUM_MAX, TRUE)
             ELSE ScanDigits(s, i + 1, v, FALSE)
    ELSE [val |-> acc, end |-> i, erange |-> erange]

\* strtoull once the sign (if any) is passed and the digits d are scanned
\* from position k: with no digit at all the value is 0 and endptr is str
\* itself; a '-' sign negates the value in the unsigned type.
StrtoullResult(i, k, sign, d) ==
    IF d.end = k
    THEN [val |-> 0, end |-> i, erange |-> FALSE]
    ELSE IF sign = "-" /\ ~d.erange
         THEN [val |-> (LinenumMod - d.val) % LinenumMod, end |-> d.end,
               erange |-> FALSE]
         ELSE d

StrtoullSigned(s, i, j) ==
    IF CharAt(s, j) = "+" \/ CharAt(s, j) = "-"
    THEN StrtoullResult(i, j + 1, CharAt(s, j), ScanDigits(s, j + 1, 0, FALSE))
    ELSE StrtoullResult(i, j, CharAt(s, j), ScanDigits(s, j, 0, FALSE))

\* strtoull(str, &endptr, 10): white space, an optional sign, digits.
STR_TO_LINENUM(s, i) == StrtoullSigned(s, i, SkipSpace(s, i))

\* lrg_read_linenum as it would be if a zero that was read were replaced
\* by the fallback also where zero is allowed.
ReadLinenumZeroAbsent(str, r, dash, fallback, allow_zero) ==
    IF ~dash /\ r.val = LINENUM_MAX /\ r.erange
    THEN [ret |-> -1, out |-> 0, end |-> r.end]
    ELSE IF r.val = 0
    THEN [ret |-> IF allow_zero \/ fallback # 0 THEN 1 ELSE 0,
          out |-> fallback, end |-> r.end]
    ELSE [ret |-> 1, out |-> r.val, end |-> r.end]

\* Lines 530-536 of lrg_read_linenum, with r what was read at str: ret is
\* the int returned, out the value stored, end what is left in *endptr.
ReadLinenumResult(str, r, dash, fallback, allow_zero) ==
    IF ~dash /\ r.val = LINENUM_MAX /\ r.erange
    THEN [ret |-> -1, out |-> 0, end |-> r.end]
    ELSE IF r.val = 0 /\ (~allow_zero \/ str = r.end)
    THEN [ret |-> IF allow_zero \/ fallback # 0 THEN 1 ELSE 0,
          out |-> fallback, end |-> r.end]
    ELSE [ret |-> 1, out |-> r.val, end |-> r.end]

\* Lines 526-529: a '-' at str stands for no value, anything else is read
\* by strtoull.
ReadLinenumAt(s, str, fallback, allow_zero) ==
    IF CharAt(s, str) = "-"
    THEN ReadLinenumResult(str, [val |-> 0, end |-> str, erange |-> FALSE],
                           TRUE, fallback, allow_zero)
    ELSE ReadLinenumResult(str, STR_TO_LINENUM(s, str), FALSE, fallback,
                           allow_zero)

lrg_read_linenum(s, i, fallback, allow_zero) ==
    ReadLinenumAt(s, SkipSpace(s, i), fallback, allow_zero)

\* Lines 570-576 as they would be if white space after the clause were
\* skipped first.
ClauseEndSpaced(s, e, start, end) ==
    IF CharAt(s, SkipSpace(s, e)) = ","
    THEN [ret |-> 0, start |-> start, end |-> end,
          ptr |-> SkipSpace(s, e) + 1, stop |-> e]
    ELSE IF CharAt(s, SkipSpace(s, e)) # NUL
         THEN [ret |-> -1, start |-> start, end |-> end, ptr |-> e, stop |-> e]
         ELSE [ret |-> 0, start |-> start, end |-> end,
               ptr |-> SkipSpace(s, e), stop |-> e]

\* Lines 570-576, what follows a clause at position e: ',' is consumed (and
\* overwritten with NUL, which ends the text of the clause), the end of the
\* string is left, anything else fails.
ClauseEnd(s, e, start, end) ==
    IF CharAt(s, e) = ","
    THEN [ret |-> 0, start |-> start, end |-> end, ptr |-> e + 1, stop |-> e]
    ELSE IF CharAt(s, e) # NUL
         THEN [ret |-> -1, start |-> start, end |-> end, ptr |-> e, stop |-> e]
         ELSE [ret |-> 0, start |-> start, end |-> end, ptr |-> e, stop |-> e]

Failed == [ret |-> -1, start |-> 0, end |-> 0, ptr |-> 0, stop |-> 0]

\* The N-M branch as it would be if it put the two values in order.
DashRangeSwapped(line0, line1) ==
    [start |-> Min(line0, line1), end |-> Max(line0, line1)]

\* Line 555, the N-M branch: both values are stored as written.
DashRange(line0, line1) == [start |-> line0, end |-> line1]

\* The N~M branch as it would be if the lower end were not clamped: the
\* difference wraps in the unsigned type.
TildeRangeUnclamped(line0, linec) ==
    [start |-> (line0 + LinenumMod - linec) % LinenumMod,
     end |-> (line0 + linec) % LinenumMod]

\* Lines 561-564, the N~M branch: the lower end is clamped to 1, the sum
\* may wrap.
TildeRange(line0, linec) ==
    [start |-> IF line0 > linec THEN line0 - linec ELSE 1,
     end |-> (line0 + linec) % LinenumMod]

\* Lines 551-555, with l1 the result of reading line1.
DashClause(s, line0, l1) ==
    IF l1.ret < 0 THEN Failed
    ELSE ClauseEnd(s, l1.end, DashRange(line0, l1.out).start,
                   DashRange(line0, l1.out).end)

\* Lines 557-564 as they would be without the overflow protection of
\* lines 562-563.
TildeClauseWrapping(s, line0, lc) ==
    IF lc.ret < 0 THEN Failed
    ELSE ClauseEnd(s, lc.end, TildeRange(line0, lc.out).start,
                   TildeRange(line0, lc.out).end)

\* Lines 557-564, with lc the result of reading linec.
TildeClause(s, line0, lc) ==
    IF lc.ret < 0 THEN Failed
    ELSE IF TildeRange(line0, lc.out).end < line0 THEN Failed
    ELSE ClauseEnd(s, lc.end, TildeRange(line0, lc.out).start,
                   TildeRange(line0, lc.out).end)

\* Lines 548-568 as they would be if only a failure to read line0, and
\* not a line0 of zero, ended the clause.
ClauseAfterZero(s, l0) ==
    IF l0.ret < 0 THEN Failed
    ELSE IF CharAt(s, l0.end) = "-"
    THEN DashClause(s, l0.out,
                    lrg_read_linenum(s, l0.end + 1, LINENUM_MAX, FALSE))
    ELSE IF CharAt(s, l0.end) = "~"
    THEN TildeClause(s, l0.out,
                     lrg_read_linenum(s, l0.end + 1, DefaultRadius, TRUE))
    ELSE ClauseEnd(s, l0.end, l0.out, l0.out)

\* Lines 548-568, with l0 the result of reading line0.
ClauseAfter(s, l0) ==
    IF l0.ret <= 0 THEN Failed
    ELSE IF CharAt(s, l0.end) = "-"
    THEN DashClause(s, l0.out,
                    lrg_read_linenum(s, l0.end + 1, LINENUM_MAX, FALSE))
    ELSE IF CharAt(s, l0.end) = "~"
    THEN TildeClause(s, l0.out,
                     lrg_read_linenum(s, l0.end + 1, DefaultRadius, TRUE))
    ELSE ClauseEnd(s, l0.end, l0.out, l0.out)

\* lrg_next_linerange at position i of s: ret 0 = a range was read,
\* < 0 = failure, > 0 = end of the string.
lrg_next_linerange(s, i) ==
    IF CharAt(s, i) = NUL
    THEN [ret |-> 1, start |-> 0, end |-> 0, ptr |-> i, stop |-> i]
    ELSE ClauseAfter(s, lrg_read_linenum(s, i, 0, FALSE))

\* c_linesbuf while n ranges are stored: it starts at c and doubles each
\* time the table is full.
RECURSIVE Capacity(_, _)
Capacity(c, n) == IF n <= c THEN c ELSE Capacity(2 * c, n)

\* Line 592: the table is full and has to grow before the next range.
MustGrow(n) == n = Capacity(LRG_LINEBUFSIZE, n)

\* The copy as it would be if memcpy were given one range less than the
\* table holds: the last one is whatever the new block held.
MemcpyShort(src, n) ==
    [i \in 1..n |-> IF i < n THEN src[i]
                    ELSE [first |-> 0, last |-> 0, text |-> <<>>]]

\* Lines 601-602 (and what realloc keeps, line 606): the n ranges of src in
\* the new block.
Memcpy(src, n) == [i \in 1..n |-> src[i]]

\* Lines 592-614: the table when the next range is stored, in a new block
\* when it was full.
GrowTable(tbl) == IF MustGrow(Len(tbl)) THEN Memcpy(tbl, Len(tbl)) ELSE tbl

\* lrg_parse_lines from position i (oldptr = ln = i) with the ranges tbl
\* already stored: ret 0 with the table, or ret 1 with what was reported
\* (the text at oldptr, or an allocation failure when alloc_ok is false and
\* the table has to grow).
RECURSIVE ParseFrom(_, _, _, _)
\* The step as it would be if a clause that fails ended the table without
\* a report, like the end of the string.
ParseStepLenient(s, i, tbl, alloc_ok, pl) ==
    IF pl.ret # 0
    THEN [ret |-> 0, table |-> tbl, bad |-> <<>>, nomem |-> FALSE]
    ELSE IF MustGrow(Len(tbl)) /\ ~alloc_ok
    THEN [ret |-> 1, table |-> tbl, bad |-> <<>>, nomem |-> TRUE]
    ELSE ParseFrom(s, pl.ptr,
                   Append(GrowTable(tbl),
                          [first |-> pl.start, last |-> pl.end,
                           text |-> SubSeq(s, i, pl.stop - 1)]),
                   alloc_ok)

\* The step as it would be if the whole specification were reported and
\* not what is left at oldptr.
ParseStepWhole(s, i, tbl, alloc_ok, pl) ==
    IF pl.ret > 0
    THEN [ret |-> 0, table |-> tbl, bad |-> <<>>, nomem |-> FALSE]
    ELSE IF pl.ret < 0
    THEN [ret |-> 1, table |-> tbl, bad |-> s, nomem |-> FALSE]
    ELSE IF MustGrow(Len(tbl)) /\ ~alloc_ok
    THEN [ret |-> 1, table |-> tbl, bad |-> <<>>, nomem |-> TRUE]
    ELSE ParseFrom(s, pl.ptr,
                   Append(GrowTable(tbl),
                          [first |-> pl.start, last |-> pl.end,
                           text |-> SubSeq(s, i, pl.stop - 1)]),
                   alloc_ok)

ParseStep(s, i, tbl, alloc_ok, pl) ==
    IF pl.ret > 0
    THEN [ret |-> 0, table |-> tbl, bad |-> <<>>, nomem |-> FALSE]
    ELSE IF pl.ret < 0
    THEN [ret |-> 1, table |-> tbl, bad |-> SubSeq(s, i, Len(s)),
          nomem |-> FALSE]
    ELSE IF MustGrow(Len(tbl)) /\ ~alloc_ok
    THEN [ret |-> 1, table |-> tbl, bad |-> <<>>, nomem |-> TRUE]
    ELSE ParseFrom(s, pl.ptr,
                   Append(GrowTable(tbl),
                          [first |-> pl.start, last |-> pl.end,
                           text |-> SubSeq(s, i, pl.stop - 1)]),
                   alloc_ok)

ParseFrom(s, i, tbl, alloc_ok) ==
    ParseStep(s, i, tbl, alloc_ok, lrg_next_linerange(s, i))

lrg_parse_lines(s, alloc_ok) == ParseFrom(s, 1, <<>>, alloc_ok)

(***************************************************************************)
(* Streams.                                                                *)
(***************************************************************************)
IsNL(b) == b % 2 = 1

\* The offset in its stream of a byte, from 0.
Off(b) == (b \div 2) - 1

ByteVal(b) == IF IsNL(b) THEN 1 ELSE b

\* The stream whose i-th byte is a newline exactly when nl[i].
StreamOf(nl) == [i \in 1..Len(nl) |-> 2 * i + (IF nl[i] THEN 1 ELSE 0)]

Streams == {StreamOf(nl) : nl \in UNION {[1..n -> BOOLEAN] : n \in 0..MaxLen}}

\* size_t memcnt(ptr, '\n', num) over the first num bytes of buf.
memcnt(buf, num) == Cardinality({i \in 1..num : IsNL(buf[i])})

\* memchr(buf_next, '\n', buf_end - buf_next): the offset in tmpbuf of the
\* first newline at or after offset from, or -1 (NULL).
memchr(buf, from, end) ==
    IF \E i \in from..(end - 1) : IsNL(buf[i + 1])
    THEN CHOOSE i \in from..(end - 1) :
             IsNL(buf[i + 1]) /\ \A j \in from..(i - 1) : ~IsNL(buf[j + 1])
    ELSE -1

\* tmpbuf after read() has stored the k bytes of data that follow offset at.
Refill(buf, data, at, k) ==
    [i \in 1..LRG_BUFSIZE |-> IF i <= k THEN data[at + i] ELSE buf[i]]

\* What read(fd, tmpbuf, sizeof(tmpbuf)) may return at offset at: a regular
\* file gives all there is up to the buffer size, a pipe any part of it.
ReadSizes(data, at, seekable) ==
    IF Len(data) - at <= 0 THEN {0}
    ELSE IF seekable THEN {Min(LRG_BUFSIZE, Len(data) - at)}
    ELSE 1..Min(LRG_BUFSIZE, Len(data) - at)

NULLP == -1

VARIABLES
    argv_range,         \* the range specification argument
    files,              \* the input files named after it
    show_linenums, show_files, warn_noline, error_on_eof,
    max_faults,         \* how many calls may fail in this run
    faults,             \* how many calls have failed
    pc, exitcode,
    linesbuf,           \* linesbuf[1..n_linesbuf]
    got_eof,
    file_i,             \* main's i, 1-based
    can_seek, show_this_linenum, buf_next, buf_end, read_n, linenum, eof_at,
    range_i,            \* 1-based
    tmpbuf,
    pos,                \* the file offset of the open stream
    out,                \* what was written to stdout
    err,                \* what was reported on stderr
    nio,                \* read, seek and write calls made so far
    moved               \* the <<file, range, how>> repositioned backwards so far

inputs == <<argv_range, files, show_linenums, show_files, warn_noline,
            error_on_eof, max_faults>>

cursor == <<can_seek, show_this_linenum, buf_next, buf_end, read_n, linenum,
            eof_at, range_i, tmpbuf, pos>>

vars == <<inputs, faults, pc, exitcode, linesbuf, got_eof, file_i, cursor,
          out, err, nio, moved>>

Msg(kind, a, b, text) == [kind |-> kind, a |-> a, b |-> b, text |-> text]

\* One item of stdout: a byte copied from the stream, a line-number prefix
\* or a file-name line, with the file and the range it was written for.
Item(kind, v) == [kind |-> kind, v |-> v, f |-> file_i, r |-> range_i]

range == linesbuf[range_i]

data == files[file_i].data

(***************************************************************************)
(* main                                                                    *)
(***************************************************************************)
\* main, lines 894-906, with p what lrg_parse_lines returned: a failure or
\* an empty table ends the process with the usage status.
AfterParse(p) ==
    /\ linesbuf' = p.table
    /\ IF p.ret # 0
       THEN /\ err' = Append(err, IF p.nomem THEN Msg("nomem", 0, 0, <<>>)
                                  ELSE Msg("invalid", 0, 0, p.bad))
            /\ exitcode' = EXITCODE_USE
            /\ pc' = "exit"
            /\ faults' = IF p.nomem THEN faults + 1 ELSE faults
       ELSE IF Len(p.table) = 0
       THEN /\ err' = Append(err, Msg("usage", 0, 0, <<>>))
            /\ exitcode' = EXITCODE_USE
            /\ pc' = "exit"
            /\ faults' = faults
       ELSE /\ pc' = "nextfile"
            /\ UNCHANGED <<err, exitcode, faults>>

\* The first non-option argument is parsed.
ParseLines ==
    /\ pc = "parse"
    /\ \E alloc_ok \in (IF faults < max_faults THEN BOOLEAN ELSE {TRUE}) :
         AfterParse(lrg_parse_lines(argv_range, alloc_ok))
    /\ UNCHANGED <<inputs, got_eof, file_i, cursor, out, nio, moved>>

\* lrg_nextfile as it would be if the cursor of the previous file were
\* kept: only the range table is iterated again from its first entry.
NextFileStale ==
    /\ pc = "nextfile"
    /\ file_i <= Len(files)
    /\ IF ~files[file_i].exists
       THEN /\ err' = Append(err, Msg("open", file_i, 0, <<>>))
            /\ exitcode' = EXITCODE_ERR
            /\ pc' = "exit"
            /\ UNCHANGED <<cursor, out, nio>>
       ELSE /\ out' = IF show_files
                      THEN Append(out, [kind |-> "name", v |-> file_i,
                                        f |-> file_i, r |-> 0])
                      ELSE out
            /\ can_seek' = files[file_i].seekable
            /\ show_this_linenum' =
                 IF file_i = 1 THEN show_linenums ELSE show_this_linenum
            /\ buf_next' = IF file_i = 1 THEN NULLP ELSE buf_next
            /\ buf_end' = IF file_i = 1 THEN NULLP ELSE buf_end
            /\ linenum' = IF file_i = 1 THEN 1 ELSE linenum
            /\ eof_at' = IF file_i = 1 THEN LINENUM_MAX ELSE eof_at
            /\ read_n' = IF file_i = 1 THEN 0 ELSE read_n
            /\ range_i' = 1
            /\ pos' = IF file_i = 1 THEN 0 ELSE pos
            /\ nio' = nio + 1
            /\ pc' = "range"
            /\ UNCHANGED <<tmpbuf, err, exitcode>>
    /\ UNCHANGED <<inputs, faults, linesbuf, got_eof, file_i, moved>>

\* lrg_nextfile up to the first range of lrg_processfile: the file is
\* opened (a failure ends main with the I/O status), its name is printed,
\* and the cursor is set up: the seek probe, JUMP_LINE(1), read_n = 0.
NextFile ==
    /\ pc = "nextfile"
    /\ file_i <= Len(files)
    /\ IF ~files[file_i].exists
       THEN /\ err' = Append(err, Msg("open", file_i, 0, <<>>))
            /\ exitcode' = EXITCODE_ERR
            /\ pc' = "exit"
            /\ UNCHANGED <<cursor, out, nio>>
       ELSE /\ out' = IF show_files
                      THEN Append(out, [kind |-> "name", v |-> file_i,
                                        f |-> file_i, r |-> 0])
                      ELSE out
            /\ can_seek' = files[file_i].seekable
            /\ show_this_linenum' = show_linenums
            /\ buf_next' = NULLP
            /\ buf_end' = NULLP
            /\ linenum' = 1
            /\ eof_at' = LINENUM_MAX
            /\ read_n' = 0
            /\ range_i' = 1
            /\ pos' = 0
            /\ nio' = nio + 1
            /\ pc' = "range"
            /\ UNCHANGED <<tmpbuf, err, exitcode>>
    /\ UNCHANGED <<inputs, faults, linesbuf, got_eof, file_i, moved>>

\* main, lines 918-921: every file was processed.
Finish ==
    /\ pc = "nextfile"
    /\ file_i > Len(files)
    /\ exitcode' = IF error_on_eof /\ got_eof THEN EXITCODE_ERR ELSE EXITCODE_OK
    /\ pc' = "exit"
    /\ UNCHANGED <<inputs, faults, linesbuf, got_eof, file_i, cursor, out, err,
                   nio, moved>>

\* lrg_processfile returns 0: the file is closed and main goes on.
Return0 ==
    /\ pc' = "nextfile"
    /\ file_i' = file_i + 1
    /\ UNCHANGED exitcode

\* lrg_processfile returns 1: main returns EXITCODE_ERR at once.
Return1 ==
    /\ pc' = "exit"
    /\ exitcode' = EXITCODE_ERR
    /\ UNCHANGED file_i

(***************************************************************************)
(* lrg_processfile: the top of the loop over the ranges                    *)
(***************************************************************************)
\* range.first > range.last, line 673: such a range is passed over.
EmptyRange(r) == r.first > r.last

\* The test of line 694-695 that chooses the backward scan.
UseBackwardScan(first, ln) ==
    first > LRG_BACKWARD_SCAN_THRESHOLD /\ first > ln \div 2

\* The loop ended (range_i = n_linesbuf): return 0.
FileDone ==
    /\ pc = "range"
    /\ range_i > Len(linesbuf)
    /\ Return0
    /\ UNCHANGED <<inputs, faults, linesbuf, got_eof, cursor, out, err, nio, moved>>

\* Lines 673-674.
RangeSkip ==
    /\ pc = "range"
    /\ range_i <= Len(linesbuf)
    /\ EmptyRange(range)
    /\ range_i' = range_i + 1
    /\ UNCHANGED <<inputs, faults, pc, exitcode, linesbuf, got_eof, file_i,
                   can_seek, show_this_linenum, buf_next, buf_end, read_n,
                   linenum, eof_at, tmpbuf, pos, out, err, nio, moved>>

\* Lines 676-683: the range starts past a recorded end of file.
RangeEofKnown ==
    /\ pc = "range"
    /\ range_i <= Len(linesbuf)
    /\ ~EmptyRange(range)
    /\ range.first > eof_at
    /\ err' = IF warn_noline
              THEN Append(err, Msg("eofknown", range.first, eof_at,
                                   <<file_i, range_i>>))
              ELSE err
    /\ IF error_on_eof
       THEN Return0 /\ UNCHANGED range_i
       ELSE range_i' = range_i + 1 /\ UNCHANGED <<pc, exitcode, file_i>>
    /\ UNCHANGED <<inputs, faults, linesbuf, got_eof, can_seek,
                   show_this_linenum, buf_next, buf_end, read_n, linenum,
                   eof_at, tmpbuf, pos, out, nio, moved>>

\* The repositioning as it would be if a range that starts past a
\* recorded end of file were gone for like any other.
RepositionPastEof ==
    /\ pc = "range"
    /\ range_i <= Len(linesbuf)
    /\ ~EmptyRange(range)
    /\ IF range.first >= linenum
       THEN /\ pc' = "fwd"
            /\ UNCHANGED <<exitcode, file_i, linenum, err>>
       ELSE IF ~can_seek
       THEN /\ err' = Append(err, Msg("norewind", file_i, 0, range.text))
            /\ Return1
            /\ UNCHANGED linenum
       ELSE IF UseBackwardScan(range.first, linenum)
       THEN /\ linenum' = (linenum - memcnt(tmpbuf, buf_next)) % LinenumMod
            /\ pc' = "bscan"
            /\ UNCHANGED <<exitcode, file_i, err>>
       ELSE /\ pc' = "rewind"
            /\ UNCHANGED <<exitcode, file_i, linenum, err>>
    /\ UNCHANGED <<inputs, faults, linesbuf, got_eof, can_seek,
                   show_this_linenum, buf_next, buf_end, read_n, eof_at,
                   range_i, tmpbuf, pos, out, nio, moved>>

\* Lines 686-720, the choice of the repositioning: none when the range
\* starts at or after the cursor; the cannot-rewind error on a stream that
\* cannot seek; the backward scan, which first takes the newlines of the
\* consumed part of the buffer off linenum; the full rewind otherwise.
Reposition ==
    /\ pc = "range"
    /\ range_i <= Len(linesbuf)
    /\ ~EmptyRange(range)
    /\ range.first <= eof_at
    /\ IF range.first >= linenum
       THEN /\ pc' = "fwd"
            /\ UNCHANGED <<exitcode, file_i, linenum, err>>
       ELSE IF ~can_seek
       THEN /\ err' = Append(err, Msg("norewind", file_i, 0, range.text))
            /\ Return1
            /\ UNCHANGED linenum
       ELSE IF UseBackwardScan(range.first, linenum)
       THEN /\ linenum' = (linenum - memcnt(tmpbuf, buf_next)) % LinenumMod
            /\ pc' = "bscan"
            /\ UNCHANGED <<exitcode, file_i, err>>
       ELSE /\ pc' = "rewind"
            /\ UNCHANGED <<exitcode, file_i, linenum, err>>
    /\ UNCHANGED <<inputs, faults, linesbuf, got_eof, can_seek,
                   show_this_linenum, buf_next, buf_end, read_n, eof_at,
                   range_i, tmpbuf, pos, out, nio, moved>>

(***************************************************************************)
(* lrg_processfile: backward repositioning                                 *)
(***************************************************************************)
\* The offset lseek(fd, -(long)(read_n + sizeof(tmpbuf)), SEEK_CUR) asks for.
BackwardTarget(p, n) == p - (n + LRG_BUFSIZE)

EXIT_SIGSEGV == 139

\* Lines 700-705 with the offset target asked of lseek.
BackwardSeekRead(fail, target) ==
    IF fail = "seek" \/ target < 0
    THEN /\ pc' = "rewind"
         /\ faults' = IF fail = "seek" THEN faults + 1 ELSE faults
         /\ UNCHANGED <<exitcode, read_n, linenum, tmpbuf, pos>>
    ELSE IF fail = "read"
    THEN /\ faults' = faults + 1
         /\ read_n' = -1
         /\ pos' = target
         /\ pc' = "exit"
         /\ exitcode' = EXIT_SIGSEGV
         /\ UNCHANGED <<linenum, tmpbuf>>
    ELSE \E k \in ReadSizes(data, target, can_seek) :
           /\ faults' = faults
           /\ read_n' = k
           /\ pos' = target + k
           /\ tmpbuf' = Refill(tmpbuf, data, target, k)
           /\ IF k < LRG_BUFSIZE
              THEN pc' = "readerr" /\ UNCHANGED linenum
              ELSE /\ linenum' = (linenum - memcnt(tmpbuf', k)) % LinenumMod
                   /\ UNCHANGED pc
           /\ UNCHANGED exitcode

\* One turn of the loop of lines 699-706.  A seek that fails (the target is
\* before the start of the file, or the call fails) leads to the full
\* rewind.  The read result is only compared with the buffer size as an
\* unsigned number, so -1 passes for a full buffer and memcnt is handed
\* (size_t)-1 bytes to count: the scan runs off the address space.
BackwardScanStep ==
    /\ pc = "bscan"
    /\ linenum >= range.first
    /\ nio' = nio + 1
    /\ \E fail \in (IF faults < max_faults THEN {"none", "seek", "read"} ELSE {"none"}) :
         BackwardSeekRead(fail, BackwardTarget(pos, read_n))
    /\ UNCHANGED <<inputs, linesbuf, got_eof, file_i, can_seek,
                   show_this_linenum, buf_next, buf_end, eof_at, range_i, out,
                   err, moved>>

\* Line 708: the loop is over, the buffer is taken to hold read_n bytes.
BackwardScanDone ==
    /\ pc = "bscan"
    /\ linenum < range.first
    /\ buf_next' = 0
    /\ buf_end' = read_n
    /\ pc' = "fwd"
    /\ moved' = moved \cup {<<file_i, range_i, "scan">>}
    /\ UNCHANGED <<inputs, faults, exitcode, linesbuf, got_eof, file_i,
                   can_seek, show_this_linenum, read_n, linenum, eof_at,
                   range_i, tmpbuf, pos, out, err, nio>>

\* Lines 712-719: seek to the start, JUMP_LINE(1).
FullRewind ==
    /\ pc = "rewind"
    /\ nio' = nio + 1
    /\ \E fail \in (IF faults < max_faults THEN BOOLEAN ELSE {FALSE}) :
         IF fail
         THEN /\ faults' = faults + 1
              /\ err' = err \o <<Msg("seek", file_i, 0, <<>>),
                                 Msg("norewind", file_i, 0, range.text)>>
              /\ Return1
              /\ UNCHANGED <<buf_next, linenum, pos, moved>>
         ELSE /\ pos' = 0
              /\ buf_next' = buf_end
              /\ linenum' = 1
              /\ pc' = "fwd"
              /\ moved' = moved \cup {<<file_i, range_i, "rewind">>}
              /\ UNCHANGED <<faults, exitcode, file_i, err>>
    /\ UNCHANGED <<inputs, linesbuf, got_eof, can_seek, show_this_linenum,
                   buf_end, read_n, eof_at, range_i, tmpbuf, out>>

(***************************************************************************)
(* lrg_processfile: the forward scan                                       *)
(***************************************************************************)
\* Lines 724-743: the buffer is used up and is read again.
ForwardRefill ==
    /\ pc = "fwd"
    /\ buf_next = buf_end
    /\ nio' = nio + 1
    /\ \E fail \in (IF faults < max_faults THEN BOOLEAN ELSE {FALSE}) :
         IF fail
         THEN /\ faults' = faults + 1
              /\ read_n' = -1
              /\ pc' = "readerr"
              /\ UNCHANGED <<buf_next, buf_end, tmpbuf, pos>>
         ELSE \E k \in ReadSizes(data, pos, can_seek) :
                /\ faults' = faults
                /\ read_n' = k
                /\ IF k = 0
                   THEN /\ pc' = "readerr"
                        /\ UNCHANGED <<buf_next, buf_end, tmpbuf, pos>>
                   ELSE /\ tmpbuf' = Refill(tmpbuf, data, pos, k)
                        /\ pos' = pos + k
                        /\ buf_next' = 0
                        /\ buf_end' = k
                        /\ UNCHANGED pc
    /\ UNCHANGED <<inputs, exitcode, linesbuf, got_eof, file_i, can_seek,
                   show_this_linenum, linenum, eof_at, range_i, out, err, moved>>

\* The fragment as it would be written if its length were taken one short.
FragmentShort(from, to) ==
    [i \in 1..(to - from - 1) |-> Item("byte", tmpbuf[from + i])]

\* The bytes tmpbuf[from..to-1] as items of stdout.
Fragment(from, to) == [i \in 1..(to - from) |-> Item("byte", tmpbuf[from + i])]

\* printf(LINE_DISPLAY_FMT, linenum) when show_this_linenum is set.
Prefix(show, ln) == IF show THEN <<Item("num", ln)>> ELSE <<>>

\* show_this_linenum as it would be if it were set again after every
\* fragment, not only after a fragment that ends a line.
ShowNextAlways(show, had_eol) == show_linenums

\* show_this_linenum after a fragment was written, lines 756 and 769.
ShowNext(show, had_eol) == IF had_eol THEN show_linenums ELSE FALSE

\* Lines 750-772 as they would be if a fragment before range.first were
\* counted but not consumed.
TakeFragmentStuck(had_eol, next) ==
    IF linenum < range.first
    THEN /\ buf_next' = buf_next
         /\ linenum' = IF had_eol THEN linenum + 1 ELSE linenum
         /\ UNCHANGED <<faults, pc, exitcode, file_i, show_this_linenum,
                        out, err, nio>>
    ELSE /\ buf_next' = next
         /\ \E fail \in (IF faults < max_faults THEN BOOLEAN ELSE {FALSE}) :
              /\ nio' = nio + 1
              /\ IF fail
                 THEN /\ faults' = faults + 1
                      /\ out' = out \o Prefix(show_this_linenum, linenum)
                      /\ show_this_linenum' = FALSE
                      /\ err' = Append(err, Msg("write", 0, 0, <<>>))
                      /\ Return1
                      /\ UNCHANGED linenum
                 ELSE /\ out' = out \o Prefix(show_this_linenum, linenum)
                                    \o Fragment(buf_next, next)
                      /\ show_this_linenum' =
                             ShowNext(show_this_linenum, had_eol)
                      /\ linenum' = IF had_eol THEN (linenum + 1) % LinenumMod
                                               ELSE linenum
                      /\ pc' = IF had_eol /\ linenum = range.last
                               THEN "readerr" ELSE "fwd"
                      /\ UNCHANGED <<faults, exitcode, file_i, err>>

\* Lines 750-772, for the fragment tmpbuf[buf_next..next-1], which ends
\* with a newline when had_eol: it is passed over before range.first, and
\* written from there on.
TakeFragment(had_eol, next) ==
    /\ buf_next' = next
    /\ IF linenum < range.first
       THEN /\ linenum' = IF had_eol THEN linenum + 1 ELSE linenum
            /\ UNCHANGED <<faults, pc, exitcode, file_i, show_this_linenum,
                           out, err, nio>>
       ELSE \E fail \in (IF faults < max_faults THEN BOOLEAN ELSE {FALSE}) :
              /\ nio' = nio + 1
              /\ IF fail
                 THEN /\ faults' = faults + 1
                      /\ out' = out \o Prefix(show_this_linenum, linenum)
                      /\ show_this_linenum' = FALSE
                      /\ err' = Append(err, Msg("write", 0, 0, <<>>))
                      /\ Return1
                      /\ UNCHANGED linenum
                 ELSE /\ out' = out \o Prefix(show_this_linenum, linenum)
                                    \o Fragment(buf_next, next)
                      /\ show_this_linenum' =
                             ShowNext(show_this_linenum, had_eol)
                      /\ linenum' = IF had_eol THEN (linenum + 1) % LinenumMod
                                               ELSE linenum
                      /\ pc' = IF had_eol /\ linenum = range.last
                               THEN "readerr" ELSE "fwd"
                      /\ UNCHANGED <<faults, exitcode, file_i, err>>

\* Lines 745-748: the next fragment runs up to and with the next newline,
\* or up to the end of the buffer.
ForwardTake ==
    /\ pc = "fwd"
    /\ buf_next # buf_end
    /\ IF memchr(tmpbuf, buf_next, buf_end) # -1
       THEN TakeFragment(TRUE, memchr(tmpbuf, buf_next, buf_end) + 1)
       ELSE TakeFragment(FALSE, buf_end)
    /\ UNCHANGED <<inputs, linesbuf, got_eof, can_seek, buf_end, read_n,
                   eof_at, range_i, tmpbuf, pos, moved>>

\* The line the diagnostic of lines 786-788 names as its target.
EofTarget(r, ln) == IF ln >= r.first THEN r.last ELSE r.first

\* The label read_error, lines 776-794, and the step to the next range.
RangeEnd ==
    /\ pc = "readerr"
    /\ IF read_n < 0
       THEN /\ err' = Append(err, Msg("read", file_i, 0, <<>>))
            /\ Return1
            /\ UNCHANGED <<got_eof, read_n, eof_at, range_i>>
       ELSE IF read_n = 0 /\ range.last # LINENUM_MAX
       THEN /\ eof_at' = linenum
            /\ err' = IF warn_noline
                      THEN Append(err, Msg("eof", EofTarget(range, linenum),
                                           linenum, <<file_i, range_i>>))
                      ELSE err
            /\ got_eof' = TRUE
            /\ IF error_on_eof
               THEN Return0 /\ UNCHANGED <<read_n, range_i>>
               ELSE /\ \E n \in (IF buf_end = NULLP THEN -1..LRG_BUFSIZE
                                                    ELSE {buf_end}) :
                         read_n' = n
                    /\ range_i' = range_i + 1
                    /\ pc' = "range"
                    /\ UNCHANGED <<exitcode, file_i>>
       ELSE /\ range_i' = range_i + 1
            /\ pc' = "range"
            /\ UNCHANGED <<exitcode, file_i, got_eof, read_n, eof_at, err>>
    /\ UNCHANGED <<inputs, faults, linesbuf, can_seek, show_this_linenum,
                   buf_next, buf_end, linenum, tmpbuf, pos, out, nio, moved>>

(***************************************************************************)
(* Command lines                                                           *)
(***************************************************************************)
\* The decimal digits of n.
RECURSIVE Dec(_)
Dec(n) == IF n < 10 THEN <<DigitChars[n + 1]>>
          ELSE Append(Dec(n \div 10), DigitChars[(n % 10) + 1])

RECURSIVE Join(_)
Join(cs) == IF Len(cs) = 0 THEN <<>>
            ELSE IF Len(cs) = 1 THEN cs[1]
            ELSE cs[1] \o <<",">> \o Join(Tail(cs))

\* The clauses N and N-, with which the tables of two ranges are built.
PlainClauses ==
    {Dec(n) : n \in 1..MaxLine} \cup {Dec(n) \o <<"-">> : n \in 1..MaxLine}

\* The clauses N-M (0 <= M), N~ and N~K.
OtherClauses ==
    {Dec(n) \o <<"-">> \o Dec(m) : n \in 1..MaxLine, m \in 0..MaxLine}
    \cup {Dec(n) \o <<"~">> : n \in 1..MaxLine}
    \cup {Dec(n) \o <<"~">> \o Dec(k) : n \in 1..MaxLine, k \in 0..MaxRadius}

\* Arguments that are no range specification.
BadRanges == {<<>>, <<"0">>, <<"1", ",">>, <<"2", "x">>, <<"1", ",", "0", "-", "2">>}

\* Two clauses N or N-.
PairArgs == {Join(<<a, b>>) : a \in PlainClauses, b \in PlainClauses}

\* Three clauses N.
TripleArgs ==
    {Join(<<Dec(a), Dec(b), Dec(c)>>) : a \in 1..MaxLine, b \in 1..MaxLine,
                                        c \in 1..MaxLine}

RangeArgs == PlainClauses \cup OtherClauses \cup BadRanges \cup PairArgs

\* Arguments with a space before or after a number.
SpacedArgs ==
    {<<" ", "1">>, <<"1", " ">>, <<"1", "-", " ", "2">>,
     <<"1", " ", "-", "2">>, <<"1", "-", "2", " ">>, <<"1", "~", " ", "1">>,
     <<"1", " ", "~", "1">>, <<"1", ",", " ", "2">>, <<"1", " ", ",", "2">>,
     <<" ", "2", "-", " ", "3">>}

\* Arguments with a comma or another character out of place.
CommaArgs ==
    {<<",", "1">>, <<"1", ",", ",", "2">>, <<"1", ",">>,
     <<"1", ",", "2", ",">>, <<"1", ";", "2">>, <<"1", "-", "2", "-", "3">>}

\* Arguments whose first value is 0 or is missing.
ZeroArgs ==
    {<<"0", "-", "2">>, <<"-", "2">>, <<"~", "1">>, <<"0", "~", "1">>,
     <<"2", ",", "0">>, <<"2", ",", "-">>}

\* Arguments whose second or third clause is the first that fails.
SuffixArgs ==
    {<<"1", ",", "2", "x", ",", "3">>, <<"1", ",", "2", ",", "x">>,
     <<"3", "x", "1">>, <<" ", "1", ",", "x">>, <<"1", "-", " ", ",", "x">>}

\* Arguments with a number at, or one past, the largest linenum_t, and
\* N~K with a sum at or past it.
LargeArgs ==
    {Dec(LINENUM_MAX), Dec(LINENUM_MAX + 1),
     <<"1", "-">> \o Dec(LINENUM_MAX + 1),
     <<"1", "-">> \o Dec(LINENUM_MAX - 1),
     <<"1", "~">> \o Dec(LINENUM_MAX + 1),
     <<"1", "~">> \o Dec(LINENUM_MAX),
     <<"2", "~">> \o Dec(LINENUM_MAX - 1),
     <<"2", "~">> \o Dec(LINENUM_MAX - 3),
     Dec(LINENUM_MAX) \o <<"~", "1">>,
     Dec(LINENUM_MAX - 1) \o <<"~", "1">>,
     Dec(LINENUM_MAX - 1) \o <<"~">>,
     <<"1", ",">> \o Dec(10 * LINENUM_MAX)}

\* Arguments of more clauses than twice the first capacity of the table,
\* out of order and overlapping.
LongArgs ==
    {<<"3", ",", "1", ",", "2", "-", ",", "1", ",", "3">>,
     <<"2", ",", "1", "-", "2", ",", "2", ",", "1", "~", "1", ",", "1">>}

ParserArgs ==
    SpacedArgs \cup CommaArgs \cup ZeroArgs \cup SuffixArgs \cup LargeArgs
    \cup LongArgs

ShortStreams == {d \in Streams : Len(d) <= MaxLen - 2}

\* Two clauses N or N- with N <= 2.
ShortArgs ==
    {Join(<<a, b>>) : a \in {<<"1">>, <<"2">>, <<"1", "-">>, <<"2", "-">>},
                      b \in {<<"1">>, <<"2">>, <<"1", "-">>, <<"2", "-">>}}

File(d, seekable, exists) == [data |-> d, seekable |-> seekable, exists |-> exists]

\* The state in which main starts; the buffer is a zeroed static array.
Start(arg, fs, l, f, w, e, flt) ==
    /\ argv_range = arg
    /\ files = fs
    /\ show_linenums = l
    /\ show_files = f
    /\ warn_noline = w
    /\ error_on_eof = e
    /\ max_faults = flt
    /\ faults = 0
    /\ pc = "parse"
    /\ exitcode = EXITCODE_OK
    /\ linesbuf = <<>>
    /\ got_eof = FALSE
    /\ file_i = 1
    /\ can_seek = FALSE
    /\ show_this_linenum = FALSE
    /\ buf_next = NULLP
    /\ buf_end = NULLP
    /\ read_n = 0
    /\ linenum = 1
    /\ eof_at = LINENUM_MAX
    /\ range_i = 1
    /\ tmpbuf = [i \in 1..LRG_BUFSIZE |-> 0]
    /\ pos = 0
    /\ out = <<>>
    /\ err = <<>>
    /\ nio = 0
    /\ moved = {}

\* One input file, every range argument, no failing call.
InitEngine ==
    \E arg \in RangeArgs, d \in Streams, sk \in BOOLEAN, l \in BOOLEAN,
       e \in BOOLEAN :
        Start(arg, <<File(d, sk, TRUE)>>, l, FALSE, TRUE, e, 0)

\* One input file, three ranges of one line.
InitTriples ==
    \E arg \in TripleArgs, d \in Streams, sk \in BOOLEAN :
        Start(arg, <<File(d, sk, TRUE)>>, FALSE, FALSE, TRUE, FALSE, 0)

\* One input file, one call that may fail.
InitFaults ==
    \E arg \in PairArgs, d \in Streams, sk \in BOOLEAN :
        Start(arg, <<File(d, sk, TRUE)>>, FALSE, FALSE, TRUE, FALSE, 1)

\* One short input file, every combination of the options.
InitFlags ==
    \E arg \in ShortArgs, d \in ShortStreams, sk \in BOOLEAN, l \in BOOLEAN,
       f \in BOOLEAN, w \in BOOLEAN, e \in BOOLEAN :
        Start(arg, <<File(d, sk, TRUE)>>, l, f, w, e, 0)

\* Two input files, the first of which may be missing or a pipe; with no
\* file named main reads stdin, which is the case of one file.
InitFiles ==
    \E arg \in ShortArgs, d1 \in ShortStreams, d2 \in ShortStreams,
       sk \in BOOLEAN, ex \in BOOLEAN, e \in BOOLEAN, flt \in 0..1 :
        Start(arg, <<File(d1, sk, ex), File(d2, TRUE, TRUE)>>, FALSE, FALSE,
              TRUE, e, flt)

\* One short input file, the arguments that try the parser.
InitParser ==
    \E arg \in ParserArgs, d \in ShortStreams, sk \in BOOLEAN :
        Start(arg, <<File(d, sk, TRUE)>>, FALSE, FALSE, TRUE, FALSE, 0)

\* The same short seekable file named twice.
InitTwice ==
    \E arg \in ShortArgs, d \in ShortStreams, l \in BOOLEAN, e \in BOOLEAN :
        Start(arg, <<File(d, TRUE, TRUE), File(d, TRUE, TRUE)>>, l, FALSE,
              TRUE, e, 0)

Init ==
    \/ InitEngine \/ InitTriples \/ InitFaults \/ InitFlags \/ InitFiles
    \/ InitParser \/ InitTwice

Next ==
    \/ ParseLines
    \/ NextFile
    \/ Finish
    \/ FileDone
    \/ RangeSkip
    \/ RangeEofKnown
    \/ Reposition
    \/ BackwardScanStep
    \/ BackwardScanDone
    \/ FullRewind
    \/ ForwardRefill
    \/ ForwardTake
    \/ RangeEnd

Spec == Init /\ [][Next]_vars
(***************************************************************************)
(* The notions the properties are stated in: the lines of a stream and     *)
(* the parts of what was written.                                          *)
(***************************************************************************)
\* The 1-based number of the line that holds the i-th byte of d.
LineOf(d, i) == 1 + Cardinality({j \in 1..(i - 1) : IsNL(d[j])})

\* The number of the line a byte of d came from.
LineOfByte(d, b) == LineOf(d, Off(b) + 1)

\* The number of lines of d; a last line without a newline counts.
NumLines(d) == IF Len(d) = 0 THEN 0 ELSE LineOf(d, Len(d))

\* The lines a..b of d: the bytes of d on these lines, in order.
LinesOf(d, a, b) == SelectSeq(d, LAMBDA x : LineOfByte(d, x) \in a..b)

\* What a table asks of d: the lines of each range, in table order.
RECURSIVE Expected(_, _)
Expected(tbl, d) ==
    IF Len(tbl) = 0 THEN <<>>
    ELSE (IF tbl[1].first <= tbl[1].last
          THEN LinesOf(d, tbl[1].first, tbl[1].last) ELSE <<>>)
         \o Expected(Tail(tbl), d)

\* The bytes among the items its, as they came from the stream.
Bytes(its) ==
    [i \in 1..Len(SelectSeq(its, LAMBDA it : it.kind = "byte")) |->
        SelectSeq(its, LAMBDA it : it.kind = "byte")[i].v]

\* The values of a sequence of bytes.
Vals(bs) == [i \in 1..Len(bs) |-> ByteVal(bs[i])]

\* What was written for file f, and for its range r.
OutOfFile(f) == SelectSeq(out, LAMBDA it : it.f = f)

OutOfRange(f, r) == SelectSeq(out, LAMBDA it : it.f = f /\ it.r = r)

\* The byte b is the first of its line.
LineStart(d, b) == Off(b) = 0 \/ IsNL(d[Off(b)])

\* The lines of d of which the items its hold a byte.
LinesIn(d, its) ==
    {LineOfByte(d, its[i].v) : i \in {j \in 1..Len(its) : its[j].kind = "byte"}}

\* A run of one seekable file with the prefixes off, without strict mode
\* and without a failing call, has ended.
PlainRunEnded ==
    /\ pc = "exit"
    /\ exitcode = EXITCODE_OK
    /\ Len(files) = 1
    /\ files[1].seekable
    /\ ~show_linenums /\ ~show_files /\ ~error_on_eof
    /\ max_faults = 0

\* C1: at the end of a run over one seekable stream, prefixes off and no
\* call failing, the bytes written are exactly the lines first..last of
\* each range with first <= last, in table order (lines past the end of
\* the stream contribute nothing).
C1_ExactOutput ==
    PlainRunEnded => Vals(Bytes(out)) = Vals(Expected(linesbuf, files[1].data))

\* The specification that is the one clause N-M.
DashSpec(n, m) == Dec(n) \o <<"-">> \o Dec(m)

\* A run of one file in which no call can fail has ended.
CleanRunEnded == pc = "exit" /\ Len(files) = 1 /\ max_faults = 0

\* The count of newlines of the stream d.
Newlines(d) == memcnt(d, Len(d))

\* The exit status of a run over d that ends with the one range a..b
\* (a <= b): the error status only in strict mode when the stream ends
\* before line b is complete.
StatusOf(d, b) ==
    IF error_on_eof /\ Newlines(d) < b THEN EXITCODE_ERR ELSE EXITCODE_OK

\* C2 (as stated): a clause N-M with N > M >= 1 gives the output and the
\* exit status of the clause M-N, that is, the lines M..N of the stream.
C2_SwappedEndpoints ==
    \A n \in 1..MaxLine, m \in 1..MaxLine :
        (n > m /\ argv_range = DashSpec(n, m) /\ CleanRunEnded)
          => /\ Bytes(out) = LinesOf(files[1].data, m, n)
             /\ exitcode = StatusOf(files[1].data, n)

\* C2 (amended): a clause N-M with N > M >= 1 is stored as written,
\* first = N and last = M, and is passed over on every stream: nothing is
\* written or reported for it and the exit status is success.
C2_ReversedPassedOver ==
    \A n \in 1..MaxLine, m \in 1..MaxLine :
        (n > m /\ argv_range = DashSpec(n, m) /\ pc # "parse"
           /\ max_faults = 0 /\ Len(files) = 1)
          => /\ linesbuf = <<[first |-> n, last |-> m, text |-> argv_range]>>
             /\ out = <<>>
             /\ err = <<>>
             /\ pc = "exit" => exitcode = EXITCODE_OK

\* A run of a clause N-M with N > M over a stream that has the lines M..N
\* has ended.
C2_Witness ==
    \E n \in 1..MaxLine, m \in 1..MaxLine :
        /\ n > m
        /\ argv_range = DashSpec(n, m)
        /\ CleanRunEnded
        /\ NumLines(files[1].data) >= n
        /\ linesbuf[1].first = n
        /\ out = <<>>

\* What a forward scan from the start of d writes for the range r.
RewindOutput(d, r) == LinesOf(d, r.first, r.last)

\* C3: in a run in which no call fails, what was written for a range that
\* the backward scan positioned is what a full rewind to line 1 would have
\* made it write: the lines first..last of the stream.
C3_ScanAsRewind ==
    (pc = "exit" /\ max_faults = 0)
      => \A m \in moved :
            m[3] = "scan"
              => Vals(Bytes(OutOfRange(m[1], m[2])))
                   = Vals(RewindOutput(files[m[1]].data, linesbuf[m[2]]))

\* The kinds of report of an open, seek, read or cannot-rewind failure.
StreamFailures == {"open", "seek", "read", "norewind"}

\* C4: when the process has ended after an open, seek, read or
\* cannot-rewind failure of a stream, the status is the I/O error status
\* and every stream named after the failing one was opened and processed
\* too: the stream that main was in at the end is the last one.
C4_LaterStreamsProcessed ==
    (pc = "exit" /\ Len(err) > 0 /\ err[Len(err)].kind \in StreamFailures)
      => exitcode = EXITCODE_ERR /\ file_i >= Len(files)

\* C5: with line numbers on (file names off, no call failing), every first
\* byte of a line in the output comes right after a prefix that carries the
\* number of that line, and a prefix stands nowhere else.
C5_PrefixOncePerLine ==
    (show_linenums /\ ~show_files /\ max_faults = 0)
      => \A i \in 1..Len(out) :
           /\ (out[i].kind = "byte"
                 /\ LineStart(files[out[i].f].data, out[i].v))
                => /\ i > 1
                   /\ out[i - 1].kind = "num"
                   /\ out[i - 1].v = LineOfByte(files[out[i].f].data, out[i].v)
           /\ out[i].kind = "num"
                => /\ i < Len(out)
                   /\ out[i + 1].kind = "byte"
                   /\ LineStart(files[out[i].f].data, out[i + 1].v)

\* The cursor of a stream that cannot seek stands at a range whose first
\* line is behind it, in a run in which no call fails.
BehindOnPipe ==
    /\ pc = "range"
    /\ range_i <= Len(linesbuf)
    /\ ~can_seek
    /\ ~EmptyRange(range)
    /\ range.first < linenum
    /\ max_faults = 0

\* C6: when a range of a stream that cannot seek starts behind the cursor,
\* all that the earlier ranges ask for has been written, and the step taken
\* makes no read, seek or write, reports that it cannot rewind, and ends
\* the process with the I/O error status, the other ranges left aside.
C6_NoRewindOnPipe ==
    [][BehindOnPipe
         => /\ Vals(Bytes(OutOfFile(file_i)))
                 = Vals(Expected(SubSeq(linesbuf, 1, range_i - 1), data))
            /\ nio' = nio /\ out' = out /\ pos' = pos
            /\ err' = Append(err, Msg("norewind", file_i, 0, range.text))
            /\ range_i' = range_i
            /\ pc' = "exit"
            /\ exitcode' = EXITCODE_ERR]_vars

\* The end of the stream was met before the end of a bounded range.
PrematureEof == pc = "readerr" /\ read_n = 0 /\ range.last # LINENUM_MAX

\* No open, seek, read or cannot-rewind failure was reported.
NothingFailed == \A i \in 1..Len(err) : err[i].kind \notin StreamFailures

\* C7: in a run in which no call fails, (a) at a premature end of the
\* stream the lines of the range that exist have been written; (b) without
\* strict mode a run that met one, and in which nothing failed, ends with
\* the success status after every range of the table and every stream was
\* gone through; (c) with strict mode it ends with the error status, and,
\* when nothing failed, after every stream was gone through.
C7_PrematureEofNotFatal ==
    max_faults = 0
      => /\ PrematureEof
              => Vals(Bytes(OutOfRange(file_i, range_i)))
                   = Vals(LinesOf(data, range.first, range.last))
         /\ (pc = "exit" /\ got_eof /\ ~error_on_eof /\ NothingFailed)
              => /\ exitcode = EXITCODE_OK
                 /\ file_i > Len(files)
                 /\ range_i > Len(linesbuf)
         /\ (pc = "exit" /\ got_eof /\ error_on_eof)
              => /\ exitcode = EXITCODE_ERR
                 /\ NothingFailed => file_i > Len(files)

\* C8: a report that the stream ended before the last line of a bounded
\* range names the first or the last line of the range as its target and
\* the number of lines of the stream as the last line.
C8_EofNamesLastLine ==
    max_faults = 0
      => \A i \in 1..Len(err) :
            (err[i].kind = "eof"
               /\ NumLines(files[err[i].text[1]].data)
                    < linesbuf[err[i].text[2]].last)
              => /\ err[i].a \in {linesbuf[err[i].text[2]].first,
                                  linesbuf[err[i].text[2]].last}
                 /\ err[i].b = NumLines(files[err[i].text[1]].data)

\* The specifications that are the one clause N~K; N~ is N~3.
TildeSpecs(n, k) ==
    {Dec(n) \o <<"~">> \o Dec(k)}
    \cup (IF k = DefaultRadius THEN {Dec(n) \o <<"~">>} ELSE {})

Radii == (0..MaxRadius) \cup {DefaultRadius}

\* The value the claim gives for the count of lines of N~K.
TildeCount(n, k, lastLine) == Min(n + k, lastLine) - Max(1, n - k) + 1

Prefixes == SelectSeq(out, LAMBDA it : it.kind = "num")

\* C10: the run of the one clause N over a stream, seekable or not, that
\* has at least N lines writes the N-th line and nothing else, and with
\* line numbers on writes one prefix, first of all, that carries N.
C10_SingleLine ==
    \A n \in 1..MaxLine :
        (CleanRunEnded /\ argv_range = Dec(n)
           /\ NumLines(files[1].data) >= n)
          => /\ Bytes(out) = LinesOf(files[1].data, n, n)
             /\ Prefixes = IF show_linenums
                           THEN <<[kind |-> "num", v |-> n, f |-> 1, r |-> 1]>>
                           ELSE <<>>
             /\ show_linenums => out[1].kind = "num"

\* The run of a clause N > 1 with line numbers on has ended, over a stream
\* that cannot seek and whose N-th line is longer than the buffer.
C10_Witness ==
    \E n \in 2..MaxLine :
        /\ CleanRunEnded
        /\ argv_range = Dec(n)
        /\ show_linenums
        /\ ~files[1].seekable
        /\ Len(LinesOf(files[1].data, n, n)) > LRG_BUFSIZE
        /\ Len(out) = Len(LinesOf(files[1].data, n, n)) + 1

\* The ranges of tbl are in order, do not overlap, and together hold
\* every line 1..n.
SortedCover(tbl, n) ==
    /\ \A i \in 1..Len(tbl) : tbl[i].first <= tbl[i].last
    /\ \A i \in 1..(Len(tbl) - 1) : tbl[i].last < tbl[i + 1].first
    /\ \A k \in 1..n : \E i \in 1..Len(tbl) :
           tbl[i].first <= k /\ k <= tbl[i].last

\* A run of one file with the prefixes off, in which no call can fail, has
\* ended, its specification parsed.
PlainEnded ==
    /\ CleanRunEnded
    /\ exitcode # EXITCODE_USE
    /\ ~show_linenums /\ ~show_files

\* C11: at the end of a run over a stream of at least one line, seekable
\* or not, with a table of sorted ranges that do not overlap and cover all
\* its lines, the bytes written are the bytes of the stream, and no range
\* was repositioned backwards or refused for want of a rewind.
C11_RoundTrip ==
    (PlainEnded /\ NumLines(files[1].data) >= 1
       /\ SortedCover(linesbuf, NumLines(files[1].data)))
      => /\ Bytes(out) = files[1].data
         /\ moved = {}
         /\ \A i \in 1..Len(err) : err[i].kind # "norewind"

\* The run of a table of two or more ranges that cover a stream of two or
\* more lines which cannot seek has ended.
C11_Witness ==
    /\ PlainEnded
    /\ ~files[1].seekable
    /\ Len(linesbuf) >= 2
    /\ NumLines(files[1].data) >= 2
    /\ linesbuf[Len(linesbuf)].last = NumLines(files[1].data)
    /\ SortedCover(linesbuf, NumLines(files[1].data))
    /\ Bytes(out) = files[1].data

(***************************************************************************)
(* The grammar of the range specification, as the properties of the parser *)
(* state it: clause (',' clause)*, a clause one of N, N-, N-M, N~, N~M.    *)
(***************************************************************************)
\* c is a string of one or more decimal digits.
AllDigits(c) == Len(c) >= 1 /\ \A i \in 1..Len(c) : IsDigit(c[i])

\* The number a string of digits writes.
RECURSIVE RefVal(_)
RefVal(c) ==
    IF Len(c) = 0 THEN 0
    ELSE 10 * RefVal(SubSeq(c, 1, Len(c) - 1)) + DigitVal(c[Len(c)])

\* c writes a number lo..LINENUM_MAX.
Number(c, lo) == AllDigits(c) /\ RefVal(c) >= lo /\ RefVal(c) <= LINENUM_MAX

\* c without its spaces.
Strip(c) == SelectSeq(c, LAMBDA x : x # " ")

\* The radius the text k of a clause N~[K] writes.
RadiusOf(k) == IF Len(k) = 0 THEN DefaultRadius ELSE RefVal(k)

\* c is a clause N, N-, N-M, N~ or N~M whose numbers and sum fit.
ValidClause(c) ==
    \/ Number(c, 1)
    \/ \E i \in 1..Len(c) :
          /\ c[i] = "-"
          /\ Number(SubSeq(c, 1, i - 1), 1)
          /\ i = Len(c) \/ Number(SubSeq(c, i + 1, Len(c)), 0)
    \/ \E i \in 1..Len(c) :
          /\ c[i] = "~"
          /\ Number(SubSeq(c, 1, i - 1), 1)
          /\ i = Len(c) \/ Number(SubSeq(c, i + 1, Len(c)), 0)
          /\ RefVal(SubSeq(c, 1, i - 1))
               + RadiusOf(SubSeq(c, i + 1, Len(c))) <= LINENUM_MAX

\* Where the piece of s that starts at i ends: before the next comma, or
\* with s.
RECURSIVE PieceEnd(_, _)
PieceEnd(s, i) ==
    IF i > Len(s) \/ s[i] = "," THEN i - 1 ELSE PieceEnd(s, i + 1)

\* The pieces the commas cut s into, from position i on: where each
\* starts and its text.
RECURSIVE Pieces(_, _)
PiecesTo(s, i, e) ==
    <<[at |-> i, text |-> SubSeq(s, i, e)]>>
    \o (IF e >= Len(s) THEN <<>> ELSE Pieces(s, e + 2))

Pieces(s, i) == PiecesTo(s, i, PieceEnd(s, i))

\* A piece of s is no clause, spaces apart; the empty piece that a comma
\* at the very end leaves is not counted.
Malformed(s) ==
    LET P == Pieces(s, 1)
    IN  \E k \in 1..Len(P) :
            /\ ~(k > 1 /\ k = Len(P) /\ P[k].text = <<>>)
            /\ ~ValidClause(Strip(P[k].text))

\* C12: when a clause of the specification is malformed, also after valid
\* ones, the run ends with the usage status, and in the whole of it no
\* stream was opened, read or sought and nothing was written.
C12_UsageBeforeIO ==
    (pc = "exit" /\ (exitcode # EXITCODE_USE \/ nio # 0 \/ out # <<>>))
      => ~Malformed(argv_range)

\* The run of a specification whose first clause is valid and was stored
\* and whose later clause is malformed has ended, over a stream with data.
C12_Witness ==
    /\ pc = "exit"
    /\ exitcode = EXITCODE_USE
    /\ Malformed(argv_range)
    /\ Len(linesbuf) >= 1
    /\ Len(files[1].data) >= 1
    /\ nio = 0

\* C13: a clause N-M (N >= 1, M any literal, 0 included) is stored with
\* first = N and last = M as written, and the clause N- with last =
\* LINENUM_MAX.
C13_DashLiteral ==
    pc # "parse" =>
      \A n \in 1..MaxLine :
        /\ \A m \in 0..MaxLine :
              argv_range = DashSpec(n, m) =>
                /\ Len(linesbuf) = 1
                /\ linesbuf[1].first = n
                /\ linesbuf[1].last = m
        /\ argv_range = Dec(n) \o <<"-">> =>
              /\ Len(linesbuf) = 1
              /\ linesbuf[1].first = n
              /\ linesbuf[1].last = LINENUM_MAX

\* C14: a clause N~M with N >= 1 whose sum fits is stored with first =
\* max(1, N-M) and last = N+M; N~0 is stored as [N, N], and N~ with the
\* radius 3.
C14_TildeStored ==
    pc = "exit" =>
      \A i \in 1..Len(argv_range) :
        (argv_range[i] = "~" /\ ValidClause(argv_range)) =>
          /\ Len(linesbuf) = 1
          /\ linesbuf[1].first =
               Max(1, RefVal(SubSeq(argv_range, 1, i - 1))
                        - RadiusOf(SubSeq(argv_range, i + 1, Len(argv_range))))
          /\ linesbuf[1].last =
               RefVal(SubSeq(argv_range, 1, i - 1))
                 + RadiusOf(SubSeq(argv_range, i + 1, Len(argv_range)))

\* The run of a clause N~0 on a stream that has line N has ended, and so
\* has stored [N, N].
C14_Witness ==
    /\ CleanRunEnded
    /\ argv_range = <<"2", "~", "0">>
    /\ linesbuf = <<[first |-> 2, last |-> 2, text |-> argv_range]>>
    /\ NumLines(files[1].data) >= 2
    /\ out # <<>>

\* The run of the clause 1~ has ended: the radius is 3 and the lower end
\* is clamped.
C14_DefaultRadiusReached ==
    /\ CleanRunEnded
    /\ argv_range = <<"1", "~">>
    /\ linesbuf[1].first = 1
    /\ linesbuf[1].last = 1 + DefaultRadius

\* The length of the run of digits c starts with.
DigitPrefix(c) ==
    CHOOSE j \in 0..Len(c) :
        /\ \A k \in 1..j : IsDigit(c[k])
        /\ j = Len(c) \/ ~IsDigit(c[j + 1])

\* The first value of the clause c is written as 0, or is missing before
\* the '-' or '~'.
ZeroFirst(c) ==
    /\ Len(c) >= 1
    /\ \/ c[1] \in {"-", "~"}
       \/ DigitPrefix(c) >= 1 /\ RefVal(SubSeq(c, 1, DigitPrefix(c))) = 0

\* C15: every stored range has first >= 1; a specification with a clause
\* whose first value is 0 or missing is rejected; the lower end of N~K with
\* N <= K is stored as 1.
C15_FirstAtLeastOne ==
    /\ \A i \in 1..Len(linesbuf) : linesbuf[i].first >= 1
    /\ (pc = "exit" /\ exitcode # EXITCODE_USE)
         => LET P == Pieces(argv_range, 1)
            IN  \A k \in 1..Len(P) : ~ZeroFirst(Strip(P[k].text))
    /\ pc = "exit" =>
         \A i \in 1..Len(argv_range) :
           (/\ argv_range[i] = "~"
            /\ ValidClause(argv_range)
            /\ RefVal(SubSeq(argv_range, 1, i - 1))
                 <= RadiusOf(SubSeq(argv_range, i + 1, Len(argv_range))))
             => Len(linesbuf) = 1 /\ linesbuf[1].first = 1

\* The run of 1~1, whose lower end 0 was clamped to 1, has ended with
\* output.
C15_Witness ==
    /\ CleanRunEnded
    /\ argv_range = <<"1", "~", "1">>
    /\ linesbuf = <<[first |-> 1, last |-> 2, text |-> argv_range]>>
    /\ exitcode = EXITCODE_OK
    /\ out # <<>>

\* A specification whose second clause has the first value 0 or missing
\* was rejected after its first clause was stored.
C15_ZeroRejected ==
    /\ pc = "exit"
    /\ exitcode = EXITCODE_USE
    /\ Len(linesbuf) = 1
    /\ Len(Pieces(argv_range, 1)) = 2
    /\ ZeroFirst(Pieces(argv_range, 1)[2].text)

\* s has the shape clause (',' clause)*, spaces apart.
Shape(s) ==
    LET P == Pieces(s, 1)
    IN  \A k \in 1..Len(P) : ValidClause(Strip(P[k].text))

\* The specification was accepted: the run has ended with another status
\* than that of a usage error.
Accepted == pc = "exit" /\ exitcode # EXITCODE_USE

\* C16: a specification is accepted only if it has the shape
\* clause (',' clause)*; one with a leading, doubled or trailing comma, or
\* with another character after a clause, fails.
C16_ShapeOnly == Accepted => Shape(argv_range)

\* c without the spaces that stand where a number may start: at the start
\* of the clause and after its '-' or '~' (last is the character kept last,
\* "" for none).
RECURSIVE StripLead(_, _, _)
StripLead(c, j, last) ==
    IF j > Len(c) THEN <<>>
    ELSE IF c[j] = " " /\ last \in {"", "-", "~"}
    THEN StripLead(c, j + 1, last)
    ELSE <<c[j]>> \o StripLead(c, j + 1, c[j])

\* The pieces of s that are no clause as written, spaces before a number
\* apart.
BadPieces(s) ==
    LET P == Pieces(s, 1)
    IN  {k \in 1..Len(P) : ~ValidClause(StripLead(P[k].text, 1, ""))}

\* The suffix of s that starts with the first piece that is no clause.
BadSuffix(s) ==
    LET k == CHOOSE k \in BadPieces(s) : \A j \in BadPieces(s) : k <= j
    IN  SubSeq(s, Pieces(s, 1)[k].at, Len(s))

\* C17: the text of the invalid-range diagnostic is the suffix of the
\* specification from the first character of the first malformed clause to
\* the end of the string.
C17_SuffixReported ==
    pc = "exit" => \A i \in 1..Len(err) :
        err[i].kind = "invalid" =>
            /\ BadPieces(argv_range) # {}
            /\ err[i].text = BadSuffix(argv_range)

\* A diagnostic was written for a specification whose first clause was
\* valid and stored: the text starts after it and holds a later comma.
C17_Witness ==
    /\ pc = "exit"
    /\ Len(linesbuf) >= 1
    /\ \E i \in 1..Len(err) :
          /\ err[i].kind = "invalid"
          /\ err[i].text = BadSuffix(argv_range)
          /\ Len(err[i].text) < Len(argv_range)
          /\ \E j \in 1..Len(err[i].text) : err[i].text[j] = ","

\* s holds a decimal literal greater than LINENUM_MAX.
BigLiteral(s) ==
    \E a \in 1..Len(s) : \E b \in a..Len(s) :
        AllDigits(SubSeq(s, a, b)) /\ RefVal(SubSeq(s, a, b)) > LINENUM_MAX

\* c is a clause N~ or N~K, each number fitting, whose sum is greater than
\* LINENUM_MAX.
BigSum(c) ==
    \E i \in 1..Len(c) :
        /\ c[i] = "~"
        /\ Number(SubSeq(c, 1, i - 1), 1)
        /\ i = Len(c) \/ Number(SubSeq(c, i + 1, Len(c)), 0)
        /\ RefVal(SubSeq(c, 1, i - 1))
             + RadiusOf(SubSeq(c, i + 1, Len(c))) > LINENUM_MAX

\* The ends of the stored range r are those its text writes, computed
\* without a bound on the integers.
Unwrapped(r, c) ==
    /\ AllDigits(c) => r.first = RefVal(c) /\ r.last = RefVal(c)
    /\ \A i \in 1..Len(c) :
          /\ c[i] = "-" => r.first = RefVal(SubSeq(c, 1, i - 1))
          /\ c[i] = "~" =>
                /\ r.first = Max(1, RefVal(SubSeq(c, 1, i - 1))
                                      - RadiusOf(SubSeq(c, i + 1, Len(c))))
                /\ r.last = RefVal(SubSeq(c, 1, i - 1))
                              + RadiusOf(SubSeq(c, i + 1, Len(c)))

\* C18: a specification with a literal greater than LINENUM_MAX, or with a
\* clause N~K whose sum is greater than LINENUM_MAX, is rejected, and the
\* ends of every stored range are the unwrapped values of its text.
C18_OverflowRejected ==
    /\ Accepted =>
         /\ ~BigLiteral(argv_range)
         /\ LET P == Pieces(argv_range, 1)
            IN  \A k \in 1..Len(P) : ~BigSum(Strip(P[k].text))
    /\ pc = "exit" =>
         \A i \in 1..Len(linesbuf) :
           /\ linesbuf[i].first \in 1..LINENUM_MAX
           /\ linesbuf[i].last \in 0..LINENUM_MAX
           /\ Unwrapped(linesbuf[i], Strip(linesbuf[i].text))

\* A clause N~K with N and K fitting and N+K greater than LINENUM_MAX was
\* rejected.
C18_Witness ==
    /\ pc = "exit"
    /\ exitcode = EXITCODE_USE
    /\ BigSum(argv_range)
    /\ ~BigLiteral(argv_range)
    /\ linesbuf = <<>>
    /\ \E i \in 1..Len(err) : err[i].kind = "invalid" /\ err[i].text = argv_range

\* A literal one greater than LINENUM_MAX was rejected after a valid
\* clause.
C18_LiteralRejected ==
    /\ pc = "exit"
    /\ exitcode = EXITCODE_USE
    /\ BigLiteral(argv_range)
    /\ Len(linesbuf) = 1

\* The ends of the ranges of a table, without their texts.
Ends(tbl) == [i \in 1..Len(tbl) |-> <<tbl[i].first, tbl[i].last>>]

HasSpace(s) == \E j \in 1..Len(s) : s[j] = " "

\* A space of s stands right after a digit.
SpaceAfterNumber(s) == \E j \in 2..Len(s) : s[j] = " " /\ IsDigit(s[j - 1])

\* Every space of s stands where a number may start.
SpaceBeforeOnly(s) ==
    LET P == Pieces(s, 1)
    IN  \A k \in 1..Len(P) : StripLead(P[k].text, 1, "") = Strip(P[k].text)

\* The run has ended as the run of the specification t would: with the
\* same ranges stored, and with the usage status for a failed parse or an
\* empty table exactly when t has one.
ParsedAs(t) ==
    /\ Ends(linesbuf) = Ends(lrg_parse_lines(t, TRUE).table)
    /\ exitcode = EXITCODE_USE
         <=> (lrg_parse_lines(t, TRUE).ret # 0
                \/ Len(lrg_parse_lines(t, TRUE).table) = 0)

\* C19: white space before or after a number of a clause is tolerated: the
\* specification parses as it does with the white space removed.
C19_SpaceTolerated ==
    (pc = "exit" /\ max_faults = 0 /\ HasSpace(argv_range))
      => ParsedAs(Strip(argv_range))

\* C19 as the parser has it: white space where a number may start (at the
\* start of a clause, after '-' or '~') is tolerated and the specification
\* parses as it does with the white space removed; white space right after
\* a number is a parse failure.
C19_SpaceBeforeTolerated ==
    (pc = "exit" /\ max_faults = 0 /\ HasSpace(argv_range))
      => /\ SpaceBeforeOnly(argv_range) => ParsedAs(Strip(argv_range))
         /\ SpaceAfterNumber(argv_range) =>
              /\ exitcode = EXITCODE_USE
              /\ out = <<>>
              /\ \E i \in 1..Len(err) : err[i].kind = "invalid"

\* The run of " 2- 3", with a space before each number, has ended: [2, 3]
\* was stored and line 2 was written.
C19_Witness ==
    /\ pc = "exit"
    /\ argv_range = <<" ", "2", "-", " ", "3">>
    /\ Ends(linesbuf) = <<<<2, 3>>>>
    /\ exitcode = EXITCODE_OK
    /\ out # <<>>

\* The run of a specification with a space after a number has ended with
\* the usage status.
C19_SpaceAfterRejected ==
    /\ pc = "exit"
    /\ SpaceAfterNumber(argv_range)
    /\ Shape(argv_range)
    /\ exitcode = EXITCODE_USE

\* What was written for file f, without the index of the file.
PassOutput(f) ==
    [i \in 1..Len(OutOfFile(f)) |->
        <<OutOfFile(f)[i].kind,
          IF OutOfFile(f)[i].kind = "name" THEN 0 ELSE OutOfFile(f)[i].v,
          OutOfFile(f)[i].r>>]

\* The run of two files that are the same seekable stream has ended, with
\* no call failing.
SameStreamTwice ==
    /\ pc = "exit"
    /\ exitcode # EXITCODE_USE
    /\ max_faults = 0
    /\ Len(files) = 2
    /\ files[1] = files[2]
    /\ files[1].seekable
    /\ files[1].exists

\* C20: processing the same seekable stream twice with the same range
\* table writes the same output in both passes.
C20_SameOutputTwice ==
    SameStreamTwice => PassOutput(1) = PassOutput(2)

\* Both passes have written lines, with line-number prefixes, of a stream
\* whose last line has no newline, and ranges that made the cursor go
\* back.
C20_Witness ==
    /\ SameStreamTwice
    /\ show_linenums
    /\ Len(files[1].data) >= 1
    /\ ~IsNL(files[1].data[Len(files[1].data)])
    /\ Len(linesbuf) = 2
    /\ linesbuf[2].first <= linesbuf[1].first
    /\ PassOutput(2) # <<>>
    /\ PassOutput(1) = PassOutput(2)

\* The offset in the stream of the byte buf_next points to: the buffer
\* window holds the buf_end bytes before the file offset.
OffsetOfNext == pos - (buf_end - buf_next)

\* The forward scan is about to take a fragment from the buffer.
TakingFragment == pc = "fwd" /\ buf_next # buf_end

\* C21: whenever the forward scan takes the next fragment from the buffer,
\* linenum is 1 plus the number of newlines of the stream before the offset
\* of buf_next.
C21_LinenumCounts ==
    TakingFragment =>
        /\ OffsetOfNext \in 0..Len(data)
        /\ linenum = LineOf(data, OffsetOfNext + 1)

\* The stream d ends strictly before the last line of the bounded range r.
EndsBefore(d, r) ==
    r.first <= r.last /\ r.last # LINENUM_MAX /\ NumLines(d) < r.last

\* C22: a premature end-of-stream is recorded for a range only if the
\* range is bounded and the stream ends strictly before its last line: not
\* for a range whose last line is the final line of the stream, with or
\* without a newline, and not for an open-ended range.
C22_EofOnlyWhenShort ==
    /\ PrematureEof => EndsBefore(data, range)
    /\ got_eof =>
         \E f \in 1..Len(files) : \E i \in 1..Len(linesbuf) :
             EndsBefore(files[f].data, linesbuf[i])

\* The read of the forward scan fails in this step.
ForwardReadFails == pc = "fwd" /\ buf_next = buf_end /\ faults' = faults + 1

\* The read of the backward scan fails in this step (a seek that fails
\* leads to the full rewind).
BackwardReadFails == pc = "bscan" /\ faults' = faults + 1 /\ pc' # "rewind"

\* The step from the label read_error with the error value in read_n.
AfterReadFailure == pc = "readerr" /\ read_n < 0

\* C23: a read that fails, in the forward scan or in the backward scan,
\* leads to the label read_error with the error value in read_n and nothing
\* more written or counted; from there the read error is reported and the
\* processing of the stream returns failure.
C23_ReadFailureReported ==
    [][/\ (ForwardReadFails \/ BackwardReadFails)
            => /\ pc' = "readerr"
               /\ read_n' < 0
               /\ UNCHANGED <<out, linenum, tmpbuf, buf_next, buf_end>>
       /\ AfterReadFailure
            => /\ err' = Append(err, Msg("read", file_i, 0, <<>>))
               /\ pc' = "exit"
               /\ exitcode' = EXITCODE_ERR
               /\ UNCHANGED out]_vars

\* The forward half of C23 alone.
C23_ForwardOnly ==
    [][/\ ForwardReadFails
            => /\ pc' = "readerr"
               /\ read_n' < 0
               /\ UNCHANGED <<out, linenum, tmpbuf, buf_next, buf_end>>
       /\ AfterReadFailure
            => /\ err' = Append(err, Msg("read", file_i, 0, <<>>))
               /\ pc' = "exit"
               /\ exitcode' = EXITCODE_ERR
               /\ UNCHANGED out]_vars

\* The steps of lrg_processfile that read, seek or write.
StreamWork == pc \in {"fwd", "bscan", "rewind", "readerr"}

Clauses(s) ==
    LET P == Pieces(s, 1)
    IN  IF Len(P) > 1 /\ P[Len(P)].text = <<>> THEN SubSeq(P, 1, Len(P) - 1)
        ELSE P

\* C25: after a successful parse of k clauses, and still after each file
\* that was processed, the table holds k entries, entry i being the first,
\* last and text the i-th clause gives when it is parsed alone, in the
\* order of the specification, also past the first capacity of the table.
C25_TableInOrder ==
    pc = "nextfile"
      => LET C == Clauses(argv_range)
         IN  /\ Len(linesbuf) = Len(C)
             /\ \A i \in 1..Len(C) :
                   <<linesbuf[i]>> = lrg_parse_lines(C[i].text, TRUE).table

\* The table of five clauses, more than twice the first capacity, out of
\* order and with one clause twice, after the file was processed with
\* output.
C25_Witness ==
    /\ pc = "nextfile"
    /\ file_i > Len(files)
    /\ Len(linesbuf) = 5
    /\ Len(linesbuf) > 2 * LRG_LINEBUFSIZE
    /\ linesbuf[1].first > linesbuf[2].first
    /\ Ends(linesbuf)[1] = Ends(linesbuf)[5]
    /\ out # <<>>

\* The command lines of the runs whose end is checked: tables that make
\* the cursor go back by the backward scan and by the full rewind, after a
\* bounded and after an open-ended range, with an empty range and with a
\* range past a recorded end of file.
LiveArgs ==
    {<<"3", ",", "2">>, <<"2", "-", ",", "2">>, <<"2", ",", "1">>,
     <<"2", "-", "1", ",", "1", ",", "3">>}

\* One input file, one call that may fail.
InitLive ==
    \E arg \in LiveArgs, d \in Streams, sk \in BOOLEAN, e \in BOOLEAN,
       flt \in 0..1 :
        Start(arg, <<File(d, sk, TRUE)>>, FALSE, FALSE, TRUE, e, flt)

\* main leaves the call of lrg_parse_lines: the parser is a total function
\* of its argument, so this step can be taken exactly when pc = "parse".
LeaveParse == pc = "parse" /\ pc' \in {"nextfile", "exit"}

\* A step of main after the range argument was parsed.
Running == pc # "parse" /\ Next

\* The process runs on its own: a step it can take is taken in the end.
LiveSpec ==
    InitLive /\ [][Next]_vars /\ WF_pc(LeaveParse) /\ WF_vars(Running)

\* A step of the forward scan that stays in the scan of the same range
\* either took bytes out of the buffer or read data into it.
ForwardProgress ==
    (pc = "fwd" /\ pc' = "fwd") =>
        \/ buf_next # buf_end /\ buf_next' > buf_next /\ buf_end' = buf_end
        \/ buf_next = buf_end /\ read_n' > 0 /\ pos' = pos + read_n'
              /\ buf_next' = 0 /\ buf_end' = read_n'

\* A step of the backward-scan loop that stays in the loop has read a full
\* buffer that ends where the buffer before it began.
BackwardProgress ==
    (pc = "bscan" /\ pc' = "bscan") =>
        /\ read_n' = LRG_BUFSIZE
        /\ pos' = pos - read_n
        /\ linenum' <= linenum

\* C26: for every stream and every range table of these runs
\* lrg_processfile comes to its end for every file and the run ends; each
\* step of the forward scan takes buffered bytes or reads data, and each
\* step of the backward-scan loop reads the buffer before the one read
\* last.
C26_Terminates ==
    /\ <>(pc = "exit")
    /\ [][ForwardProgress /\ BackwardProgress]_vars

\* A run in which the backward scan went through its loop and positioned
\* a range has ended.
C26_Witness ==
    /\ pc = "exit"
    /\ file_i > Len(files)
    /\ \E r \in 1..Len(linesbuf) : <<1, r, "scan">> \in moved
    /\ out # <<>>

=============================================================================
